---- MODULE Spec2Model ----
(***************************************************************************)
(* The per-guild playback scheduler of music_bot.py (MusicPlayer and the   *)
(* MusicCog / MusicControlView handlers that mutate it) and the stream     *)
(* resolution cascade YTDLSource.from_url.                                 *)
(*                                                                         *)
(* All coroutines run on one asyncio loop: the code between two awaits is  *)
(* one atomic step.  Every action below is one such segment of a handler   *)
(* or of a background task; a coroutine suspended in an await is a record  *)
(* in the bag `tasks`.                                                     *)
(***************************************************************************)
EXTENDS Integers, Sequences, FiniteSets, Bags, TLC

\* ------------------------------------------------------------------ bounds
MaxSongs == 3      \* Song objects created in one behaviour
MaxLoopSongs == 2  \* the same, in behaviours that use the loop modes
MaxTasks == 2      \* coroutines suspended or scheduled at the same time
MaxDepth == 8      \* nested play_next() frames before the interpreter gives up
MaxEntries == 3    \* entries of a playlist captured by a cursor
MaxVideos == 5     \* distinct video ids downloaded
MaxDownloads == 5  \* yt-dlp runs that leave a file
MaxRuns == 2       \* from_url runs whose executor threads overlap
MaxSkips == 4      \* failed resolutions in a row that are followed
MaxPlaylist == 52  \* entries of a playlist that is expanded and counted
MaxStreams == 3    \* stream entries in one provider response
MaxBitrate == 2    \* the highest bitrate an entry declares
LevelMargin == 2   \* how far outside 0..100 a /volume level can lie
MaxTracks == 4     \* entries of a playlist whose entries may raise
MaxGuilds == 2     \* guilds the bot serves
MaxGuildSongs == 3 \* Song objects created in all guilds together

\* ------------------------------------------------------------- basic values
None == 0
NoUrl == <<"none", 0>>
NoKey == <<NoUrl, None>>

SongIds == 1 .. MaxSongs

\* Song.url: <<"yt", n>> a watch URL of video n, <<"search", n>> the
\* "spotify:search:<query n>" marker, <<"file", n>> a local path.
Song(kind, id) ==
    [source_type |-> kind,
     url |-> IF kind = "local" THEN <<"file", id>>
             ELSE IF kind = "spotify" THEN <<"search", id>>
             ELSE <<"yt", id>>]

NoSong == [source_type |-> "none", url |-> NoUrl]

NoStream == <<"none", 0>>

\* One run of YTDLSource.from_url, before it starts.
\* rs.match   the URL holds an 11-character video id
\* rs.cli     how the yt-dlp run ended: "ok" (exit code 0), "failed", "error"
\* rs.file    the download left a file under /tmp
\* rs.meta    what extract_info gave after the download: "data", "empty", "error"
\* rs.stream  the stream URL a proxy instance returned
\* rs.result  "handle" (from_url returned) or "raise"
\* rs.source  what the returned handle plays: <<"file", 0>> or a stream URL
\* rs.log     the endpoints contacted so far, in the order of contact
NoRun ==
    [pc |-> "idle", match |-> FALSE, cli |-> "none", file |-> FALSE, meta |-> "none",
     idx |-> 0, stream |-> NoStream, result |-> "none", source |-> NoStream,
     log |-> << >>]

\* The download cache: glob("/tmp/ytdl_*.*").
\* disk.files[v]  modification time of /tmp/ytdl_<v>.mp3, 0 when there is none
\* disk.clock     the latest modification time handed out
\* disk.runs[r]   a from_url run between its download and its return: the
\*                video it downloaded (own), the list glob gave its
\*                cleanup_old_downloads (files) and what that still has to
\*                delete (todo)
\* disk.handles  the videos whose file a live stream handle plays from
MAX_CACHED_SONGS == 3
VideoIds == 1 .. MaxVideos
Runs == 1 .. MaxRuns
NoCleanup == [pc |-> "idle", files |-> {}, todo |-> << >>, own |-> 0]
NoDisk ==
    [files |-> [v \in VideoIds |-> 0], clock |-> 0, runs |-> [r \in Runs |-> NoCleanup],
     handles |-> {}]

\* A run whose cleanup_old_downloads has returned.
Cleaned(run) == [NoCleanup EXCEPT !.pc = "meta", !.own = run.own]

\* One response of a Piped or Invidious instance with status 200: its stream
\* entries (audioStreams, adaptiveFormats) and the URL the code took from it
\* (None when it went on to the next instance).  An entry carries its type,
\* whether it declares a bitrate and which, and its url, None when it has
\* none; the url of the k-th entry is k.
NoResponse == [provider |-> "none", streams |-> << >>, url |-> None]

\* MusicPlayer.volume is kept in hundredths: self.volume = 0.5, the step of
\* the buttons 0.1, full volume 1.0 and the greatest level /volume takes.
DefaultVolume == 50
VolumeStep == 10
FullVolume == 100
MaxLevel == 100

\* song_key = f"{song.url}_{id(song)}"
song_key(st, s) == <<st.songs[s].url, s>>

\* ------------------------------------------------------------------- state
VARIABLES
    queue,              \* MusicPlayer.queue: sequence of song ids
    current,            \* MusicPlayer.current: song id or None
    loop,               \* MusicPlayer.loop (repeat-song)
    loop_queue,         \* MusicPlayer.loop_queue (repeat-queue)
    pending_playlist,   \* MusicPlayer.pending_playlist
    preloaded_sources,  \* MusicPlayer.preloaded_sources: set of <<key, handle>>
    songs,              \* the Song objects: id -> [source_type, url]
    created,            \* number of Song objects created so far
    connected,          \* guild.voice_client is not None
    player,             \* the source the voice client holds, or NoUrl
    paused,             \* voice_client.is_paused()
    tasks,              \* bag of suspended / scheduled coroutines
    hist,               \* what the last step did (observation only)
    rs,                 \* one run of YTDLSource.from_url
    disk,               \* the downloads under /tmp and the runs that clean them up
    expansion,          \* one playlist expansion and the songs it has queued
    resp,               \* one provider response and the stream URL taken from it
    volume,             \* MusicPlayer.volume in hundredths, and the handler that last ran
    cog                 \* MusicCog.players and the MusicPlayer objects of all guilds

vars == <<queue, current, loop, loop_queue, pending_playlist, preloaded_sources,
          songs, created, connected, player, paused, tasks, hist, rs, disk, expansion, resp, volume, cog>>

\* What stays put while YTDLSource.from_url runs.
playerVars == <<queue, current, loop, loop_queue, pending_playlist, preloaded_sources,
                songs, created, connected, player, paused, tasks, hist, disk,
                expansion, resp, volume, cog>>

\* What stays put while one playlist expansion is counted.
countVars == <<queue, current, loop, loop_queue, pending_playlist, preloaded_sources,
               songs, created, connected, player, paused, tasks, hist, rs, disk,
               resp, volume, cog>>

\* What stays put while a provider response is read.
respVars == <<queue, current, loop, loop_queue, pending_playlist, preloaded_sources,
              songs, created, connected, player, paused, tasks, hist, rs, disk,
              expansion, volume, cog>>

\* What stays put while the volume is set.
volumeVars == <<queue, current, loop, loop_queue, pending_playlist, preloaded_sources,
                songs, created, connected, player, paused, tasks, hist, rs, disk,
                expansion, resp, cog>>

\* What stays put while the players of several guilds are used.
cogVars == <<queue, current, loop, loop_queue, pending_playlist, preloaded_sources,
             songs, created, connected, player, paused, tasks, hist, rs, disk,
             expansion, resp, volume>>

\* What stays put while downloads are cleaned up.
resolveVars == <<queue, current, loop, loop_queue, pending_playlist, preloaded_sources,
                 songs, created, connected, player, paused, tasks, hist, rs,
                 expansion, resp, volume, cog>>

\* ------------------------------------------------------------------- tasks
\* key and mark only record what a later step is told about this task:
\*   key   the song_key a play_next() or a prefetch works on; for a skip, the
\*         identity of the song that was current when it was issued
\*   mark  for a prefetch: stop ran while it was suspended in an await;
\*         for a skip: repeat-song was on when it was issued
Task(kind, pc, key, url, mark) ==
    [kind |-> kind, pc |-> pc, key |-> key, url |-> url, mark |-> mark]

PlayNextTask == Task("play_next", "start", NoKey, NoUrl, FALSE)
PreloadTask == Task("preload", "start", NoKey, NoUrl, FALSE)
LoadNextTask == Task("load_next", "start", NoKey, NoUrl, FALSE)

spawn(st, t) == [st EXCEPT !.tasks = @ (+) SetToBag({t})]

TasksOf(kind, pc) == {t \in BagToSet(tasks) : t.kind = kind /\ t.pc = pc}

\* ------------------------------------------------------- the prefetch cache
CacheKeys(c) == {e[1] : e \in c}
CacheGet(c, k) == (CHOOSE e \in c : e[1] = k)[2]
CachePop(c, k) == {e \in c : e[1] # k}
CachePut(c, k, h) == CachePop(c, k) \cup {<<k, h>>}

\* ------------------------------------------------------------ the transport
is_playing(st) == st.player # NoUrl /\ ~st.paused
is_paused(st) == st.player # NoUrl /\ st.paused

\* voice_client.stop(): the player thread ends and runs after_playing, which
\* schedules play_next() on the loop.
vc_stop(st) ==
    IF st.player = NoUrl THEN st
    ELSE spawn([st EXCEPT !.player = NoUrl, !.paused = FALSE], PlayNextTask)

\* --------------------------------------------------------- playlist cursor
\* pending_playlist: entries (YouTube) or tracks (Spotify) hold video ids, 0
\* for an entry that is None or a track without a name.
NoPlaylist ==
    [active |-> FALSE, is_spotify |-> FALSE, entries |-> << >>, current_index |-> 0]

\* A slip of the lookup below: the entry before the index.
EntryBefore(pl) == pl.entries[pl.current_index]

\* entry = entries[idx], item = tracks[idx]
EntryAt(pl) == pl.entries[pl.current_index + 1]

\* The branch load_next_from_playlist takes: "none" (no cursor), "exhausted",
\* "skip" (a placeholder), "append" (a YouTube entry), "search" (a Spotify
\* track, which is looked up on YouTube first), "raise" (an entry whose
\* processing raises, such as a track with a name and an empty artist list:
\* the except clause at line 798 ends the call).
refill_case(pl) ==
    IF ~pl.active THEN "none"
    ELSE IF pl.current_index >= Len(pl.entries) THEN "exhausted"
    ELSE IF EntryAt(pl) = 0 THEN "skip"
    ELSE IF EntryAt(pl) < 0 THEN "raise"
    ELSE IF pl.is_spotify THEN "search"
    ELSE "append"

\* playlist['current_index'] += 1, on the dict the call started with.
Advance(pl) == IF pl.active THEN [pl EXCEPT !.current_index = @ + 1] ELSE pl

\* for entry in entries[:50]
PlaylistCap == 50

\* One playlist expansion, counted rather than queued: the path that expanded
\* it ("none", "fast", "initial", "cursor"), the cursor it left behind, how
\* many songs it has put in the queue so far, and the branch the last call of
\* load_next_from_playlist took.
NoExpansion == [path |-> "none", cursor |-> NoPlaylist, queued |-> 0, last |-> ""]

\* data['entries'] of a playlist of n videos; with a hole its second entry is
\* None.
PlaylistEntries(n, hole) == [k \in 1 .. n |-> IF hole /\ k = 2 THEN 0 ELSE k]

\* entries[:n]
Take(s, n) == SubSeq(s, 1, IF Len(s) < n THEN Len(s) ELSE n)

\* The entries a loop with `if not entry: continue` makes songs of.
Videos(s) == Cardinality({k \in 1 .. Len(s) : s[k] # 0})

\* song = Song(...); self.queue.append(song)
NewSong(st, kind, url) ==
    IF st.created >= MaxSongs THEN [st EXCEPT !.overflow = TRUE]
    ELSE LET id == st.created + 1
         IN  [st EXCEPT !.created = id,
                        !.songs[id] = [source_type |-> kind, url |-> url],
                        !.queue = Append(@, id)]

\* load_next_from_playlist up to its return or, for a Spotify track, up to
\* its await of process_youtube.
load_next_from_playlist(st) ==
    LET pl == st.pending_playlist
        todo == refill_case(pl)
    IN  IF todo = "exhausted" THEN [st EXCEPT !.pending_playlist = NoPlaylist]
        ELSE IF todo = "skip" THEN [st EXCEPT !.pending_playlist = Advance(pl)]
        ELSE IF todo = "append"
        THEN [NewSong(st, "youtube", <<"yt", EntryAt(pl)>>)
                 EXCEPT !.pending_playlist = Advance(pl)]
        ELSE st

\* The rest of load_next_from_playlist after process_youtube returned
\* (lines 757-760 and 796); t.url holds the track that was searched.
refill_found(st, t, found) ==
    LET s1 == IF found THEN NewSong(st, "spotify", <<"yt", t.url[2]>>) ELSE st
    IN  [s1 EXCEPT !.pending_playlist = Advance(@)]

\* ------------------------------------------------------------- play_next()
\* Two slips of the reinsertion below: repeat-song reinserting at the tail,
\* and repeat-queue forgetting the song it replaces.
ReinsertTail(q, cur, lp, lq) ==
    IF (lp \/ lq) /\ cur # None THEN Append(q, cur) ELSE q

ReinsertDrop(q, cur, lp, lq) ==
    IF lp /\ cur # None THEN <<cur>> \o q ELSE q

\* The loop-mode reinsertion at the top of play_next (lines 622-625).
Reinsert(q, cur, lp, lq) ==
    IF lp /\ cur # None THEN <<cur>> \o q
    ELSE IF lq /\ cur # None THEN Append(q, cur)
    ELSE q

RECURSIVE play_next_run(_, _)
RECURSIVE play_next_rest(_, _)
RECURSIVE vc_play(_, _, _)

\* voice_client.play(source, after=after_playing) and the rest of the try
\* block; any exception lands in the except clause, which calls play_next().
vc_play(st, source, fuel) ==
    IF ~st.connected \/ is_playing(st)
    THEN play_next_run(st, fuel - 1)
    ELSE LET s1 == [st EXCEPT !.player = source, !.paused = FALSE]
         IN  IF s1.current = None
             THEN play_next_run(s1, fuel - 1)
             ELSE IF s1.queue # << >> THEN spawn(s1, PreloadTask) ELSE s1

\* A slip of the cache lookup below: a song that is not in the cache and is
\* no local file is given up instead of being resolved.
play_next_rest_no_fallback(st, fuel) ==
    IF st.queue = << >>
    THEN [st EXCEPT !.current = None, !.preloaded_sources = {}, !.drained = TRUE]
    ELSE
    LET c == Head(st.queue)
        s3 == [st EXCEPT !.current = c, !.queue = Tail(@)]
        key == song_key(s3, c)
        s4 == IF s3.pending_playlist.active THEN spawn(s3, LoadNextTask) ELSE s3
    IN  IF ~s4.connected THEN s4
        ELSE IF key \in CacheKeys(s4.preloaded_sources)
        THEN vc_play([s4 EXCEPT !.preloaded_sources = CachePop(@, key)],
                     CacheGet(s4.preloaded_sources, key), fuel)
        ELSE IF s4.songs[c].source_type = "local"
        THEN vc_play(s4, s4.songs[c].url, fuel)
        ELSE play_next_run(s4, fuel - 1)

\* play_next() from `if not self.queue:` (line 631) to its return or to its
\* next await.
play_next_rest(st, fuel) ==
    IF st.queue = << >>
    THEN [st EXCEPT !.current = None, !.preloaded_sources = {}, !.drained = TRUE]
    ELSE
    LET c == Head(st.queue)
        s3 == [st EXCEPT !.current = c, !.queue = Tail(@)]
        key == song_key(s3, c)
        s4 == IF s3.pending_playlist.active THEN spawn(s3, LoadNextTask) ELSE s3
    IN  IF ~s4.connected THEN s4
        ELSE IF key \in CacheKeys(s4.preloaded_sources)
        THEN vc_play([s4 EXCEPT !.preloaded_sources = CachePop(@, key)],
                     CacheGet(s4.preloaded_sources, key), fuel)
        ELSE IF s4.songs[c].source_type = "local"
        THEN vc_play(s4, s4.songs[c].url, fuel)
        ELSE IF s4.songs[c].source_type = "spotify" /\ s4.songs[c].url[1] = "search"
        THEN spawn(s4, Task("play_next", "search", key, NoUrl, FALSE))
        ELSE spawn(s4, Task("play_next", "resolve", key, s4.songs[c].url, FALSE))

\* A slip of the refill below: the cursor is asked although songs are queued.
play_next_run_refill_first(st, fuel) ==
    LET s0 == [st EXCEPT !.adv = @ + 1]
        s1 == [s0 EXCEPT !.queue = Reinsert(@, s0.current, loop, loop_queue)]
    IN  play_next_rest(load_next_from_playlist(s1), fuel)

\* play_next() from its first line to its return or to its first await.
play_next_run(st, fuel) ==
    IF fuel <= 0 THEN st
    ELSE
    LET s0 == [st EXCEPT !.adv = @ + 1]
        s1 == [s0 EXCEPT !.queue = Reinsert(@, s0.current, loop, loop_queue)]
        pl == s1.pending_playlist
    IN  IF s1.queue = << >> /\ refill_case(pl) = "search"
        THEN spawn(s1, Task("play_next", "refill", NoKey, <<"search", EntryAt(pl)>>,
                            FALSE))
        ELSE IF s1.queue = << >>
        THEN play_next_rest(load_next_from_playlist(s1), fuel)
        ELSE play_next_rest(s1, fuel)

\* ------------------------------------------------------- steps and history
\* The player state a handler segment starts from.
St ==
    [queue |-> queue, current |-> current, pending_playlist |-> pending_playlist,
     preloaded_sources |-> preloaded_sources, songs |-> songs, created |-> created,
     connected |-> connected, player |-> player, paused |-> paused, tasks |-> tasks,
     adv |-> 0, drained |-> FALSE, overflow |-> FALSE]

Without(t) == [St EXCEPT !.tasks = @ (-) SetToBag({t})]

\* hist.op       "advance": the last step entered play_next();
\*               "repeat_song", "repeat_queue": it did so with a song current
\*               and that loop mode on;
\*               "skip_loop": it was the voice_client.stop() of a skip issued
\*               with repeat-song on, and the transport held a source
\*               (hist.key[2] is the song skipped);
\*               "stop": it was stop / stop_button and the transport held a source;
\*               "stop_pending": it was stop / stop_button, the transport held
\*               none and a play_next() was suspended in from_url;
\*               "skip_advance", "stop_advance": it was the play_next() started by
\*               the finished signal, directly after such a skip or stop;
\*               "skip_rejected", "remove_rejected", "shuffle_rejected": it was
\*               that command, answered with an error message;
\*               "stale_prefetch": a prefetch that was in flight when stop ran
\*               completed with a handle (hist.key is its song_key)
\* hist.plain    only /play, transport and background steps so far, and every
\*               /play before the first time play_next() found nothing to play
\* hist.nadv     play_next() entries so far (counted while plain)
\* hist.skips    resolutions that failed in a row, each sending play_next() to
\*               the next song, since play_next() last found nothing to play
\*               (counted by play_next_resolve_fails only)
Hist(op, st, plainop) ==
    LET pl == hist.plain /\ plainop
    IN  [op |-> IF op # "" THEN op
                ELSE IF st.adv = 0 THEN ""
                ELSE IF loop /\ current # None THEN "repeat_song"
                ELSE IF loop_queue /\ current # None THEN "repeat_queue"
                ELSE "advance",
         plain |-> pl,
         drained |-> pl /\ (hist.drained \/ st.drained),
         nadv |-> IF pl THEN hist.nadv + st.adv ELSE 0,
         key |-> NoKey,
         skips |-> IF st.drained THEN 0 ELSE hist.skips]

\* The Song objects something still refers to.  The others are garbage: no
\* step reads them, and Apply forgets their fields.
Live(st) ==
    {st.queue[i] : i \in 1 .. Len(st.queue)} \cup {st.current}
        \cup {t.key[2] : t \in {u \in BagToSet(st.tasks) : u.kind = "preload"}}

Apply(st) ==
    /\ ~st.overflow
    /\ BagCardinality(st.tasks) <= MaxTasks
    /\ queue' = st.queue
    /\ current' = st.current
    /\ pending_playlist' = st.pending_playlist
    /\ preloaded_sources' = st.preloaded_sources
    /\ songs' = [i \in SongIds |-> IF i \in Live(st) THEN st.songs[i] ELSE NoSong]
    /\ created' = st.created
    /\ connected' = st.connected
    /\ player' = st.player
    /\ paused' = st.paused
    /\ tasks' = st.tasks

\* A step of a handler that is part of plain playback.
Step(st) ==
    /\ Apply(st)
    /\ hist' = Hist("", st, TRUE)

\* A step of a user command that reorders, empties, skips or loops the queue.
Command(op, st) ==
    /\ Apply(st)
    /\ hist' = Hist(op, st, FALSE)

Guilds == 1 .. MaxGuilds

\* MusicPlayer.__init__; songs are Song objects by number, the cache holds the
\* songs it has a handle for.
MusicPlayer ==
    [queue |-> << >>, current |-> None, volume |-> DefaultVolume, loop |-> FALSE,
     loop_queue |-> FALSE, pending_playlist |-> NoPlaylist, preloaded_sources |-> {}]

\* cog.players[g]  the MusicPlayer object MusicCog.players holds for guild g,
\*                 0 when it holds none
\* cog.heap[o]     the fields of MusicPlayer object o
\* cog.made        the MusicPlayer objects constructed so far
\* cog.vc[g]       the voice client of guild g: "none", "silent", "playing",
\*                 or "ended" (its finished signal has scheduled play_next())
\* cog.nsongs      the Song objects created so far
NoCog ==
    [players |-> [g \in Guilds |-> 0], heap |-> [o \in Guilds |-> MusicPlayer],
     made |-> 0, vc |-> [g \in Guilds |-> "none"], nsongs |-> 0]

Init ==
    /\ queue = << >>
    /\ current = None
    /\ loop = FALSE
    /\ loop_queue = FALSE
    /\ pending_playlist = NoPlaylist
    /\ preloaded_sources = {}
    /\ songs = [i \in SongIds |-> NoSong]
    /\ created = 0
    /\ connected = FALSE
    /\ player = NoUrl
    /\ paused = FALSE
    /\ tasks = EmptyBag
    /\ hist = [op |-> "", plain |-> TRUE, drained |-> FALSE, nadv |-> 0, key |-> NoKey,
               skips |-> 0]
    /\ rs = NoRun
    /\ disk = NoDisk
    /\ expansion = NoExpansion
    /\ resp = NoResponse
    /\ volume = [v |-> DefaultVolume, op |-> ""]
    /\ cog = NoCog

\* ----------------------------------------------------- /play (MusicCog.play)
\* What one /play request resolves to: a local file, one video, or the
\* entries of a YouTube or Spotify playlist (the latter as search markers).
Requests ==
    {<<"local">>, <<"youtube">>, <<"spotify">>,
     <<"youtube", "youtube">>, <<"spotify", "spotify">>}

\* A slip of the enqueue: new songs put in front.
AppendSongsFront(st, req) ==
    [st EXCEPT !.created = @ + Len(req),
               !.songs = [i \in DOMAIN @ |->
                            IF i > st.created /\ i <= st.created + Len(req)
                            THEN Song(req[i - st.created], i) ELSE @[i]],
               !.queue = [j \in 1 .. Len(req) |-> st.created + j] \o @]

\* songs_added and "Add to queue" (lines 906-908).
AppendSongs(st, req) ==
    [st EXCEPT !.created = @ + Len(req),
               !.songs = [i \in DOMAIN @ |->
                            IF i > st.created /\ i <= st.created + Len(req)
                            THEN Song(req[i - st.created], i) ELSE @[i]],
               !.queue = @ \o [j \in 1 .. Len(req) |-> st.created + j]]

\* A slip of the start below: play_next() is called whatever the transport
\* does.
play_always_starts ==
    \E req \in Requests :
        /\ created + Len(req) <= MaxSongs
        /\ LET s1 == AppendSongs([St EXCEPT !.connected = TRUE], req)
               s2 == play_next_run(s1, MaxDepth)
           IN  /\ Apply(s2)
               /\ hist' = Hist("", s2, ~hist.drained)
        /\ UNCHANGED <<loop, loop_queue, rs, disk, expansion, resp, volume, cog>>

\* ensure_voice(), "Add to queue" and "Start playing if not already".  The
\* awaits in between touch no player state.
play ==
    \E req \in Requests :
        /\ created + Len(req) <= MaxSongs
        /\ LET s1 == AppendSongs([St EXCEPT !.connected = TRUE], req)
               s2 == IF ~is_playing(s1) /\ ~is_paused(s1)
                     THEN play_next_run(s1, MaxDepth) ELSE s1
           IN  /\ Apply(s2)
               /\ hist' = Hist("", s2, ~hist.drained)
        /\ UNCHANGED <<loop, loop_queue, rs, disk, expansion, resp, volume, cog>>

\* /play in two steps.  First ensure_voice(): the bot joins the channel.
play_ensure_voice ==
    /\ Apply(spawn([St EXCEPT !.connected = TRUE],
                   Task("play", "enqueue", NoKey, NoUrl, FALSE)))
    /\ hist' = Hist("", St, ~hist.drained)
    /\ UNCHANGED <<loop, loop_queue, rs, disk, expansion, resp, volume, cog>>

\* Then, the request resolved to songs: "Add to queue" and "Start playing if
\* not already" (lines 906-913), which asks for the voice client again.
play_enqueue ==
    \E t \in TasksOf("play", "enqueue"), req \in Requests :
        /\ created + Len(req) <= MaxSongs
        /\ LET s1 == AppendSongs(Without(t), req)
               s2 == IF s1.connected /\ ~is_playing(s1) /\ ~is_paused(s1)
                     THEN play_next_run(s1, MaxDepth) ELSE s1
           IN  /\ Apply(s2)
               /\ hist' = Hist("", s2, ~hist.drained)
        /\ UNCHANGED <<loop, loop_queue, rs, disk, expansion, resp, volume, cog>>

\* MusicCog.disconnect; voice_client.disconnect() stops the player first.
disconnect ==
    /\ connected
    /\ Command("", [vc_stop([St EXCEPT !.queue = << >>, !.current = None,
                                      !.preloaded_sources = {}])
                       EXCEPT !.connected = FALSE])
    /\ UNCHANGED <<loop, loop_queue, rs, disk, expansion, resp, volume, cog>>

\* ------------------------------------------------------------ the transport
\* The source ends by itself: the player thread calls after_playing.
after_playing ==
    /\ is_playing(St)
    /\ Step(vc_stop(St))
    /\ UNCHANGED <<loop, loop_queue, rs, disk, expansion, resp, volume, cog>>

pause ==
    /\ connected /\ is_playing(St)
    /\ Step([St EXCEPT !.paused = TRUE])
    /\ UNCHANGED <<loop, loop_queue, rs, disk, expansion, resp, volume, cog>>

resume ==
    /\ connected /\ is_paused(St)
    /\ Step([St EXCEPT !.paused = FALSE])
    /\ UNCHANGED <<loop, loop_queue, rs, disk, expansion, resp, volume, cog>>

\* ------------------------------------------------- play_next() as a task
\* The coroutine after_playing handed to the loop starts.
play_next_start ==
    \E t \in TasksOf("play_next", "start") :
        /\ LET s1 == play_next_run(Without(t), MaxDepth)
           IN  /\ Apply(s1)
               /\ hist' = IF hist.op = "skip_loop"
                          THEN [Hist("skip_advance", s1, TRUE) EXCEPT !.key = hist.key]
                          ELSE Hist(IF hist.op = "stop" THEN "stop_advance" ELSE "",
                                    s1, TRUE)
        /\ UNCHANGED <<loop, loop_queue, rs, disk, expansion, resp, volume, cog>>

\* cog.process_youtube(search_query, ...) returns (lines 675-688).
play_next_search_done ==
    \E t \in TasksOf("play_next", "search"), found \in BOOLEAN :
        /\ LET s1 == Without(t)
               s2 == IF found
                     THEN [s1 EXCEPT !.songs[current].url = <<"yt", t.key[2]>>]
                     ELSE s1
           IN  IF current = None
               THEN Step(play_next_run(s1, MaxDepth))
               ELSE Step(spawn(s2, Task("play_next", "resolve", t.key,
                                        s2.songs[current].url, t.mark)))
        /\ UNCHANGED <<loop, loop_queue, rs, disk, expansion, resp, volume, cog>>

\* play_next() after its from_url returned (ok) or raised (lines 684-721).
play_next_resolved(t, ok) ==
    LET s1 == Without(t)
    IN  IF ok THEN vc_play(s1, t.url, MaxDepth) ELSE play_next_run(s1, MaxDepth)

\* YTDLSource.from_url returns or raises.
play_next_resolve_done ==
    \E t \in TasksOf("play_next", "resolve"), ok \in BOOLEAN :
        /\ Step(play_next_resolved(t, ok))
        /\ UNCHANGED <<loop, loop_queue, rs, disk, expansion, resp, volume, cog>>

\* YTDLSource.from_url raises, as it does for every song when no download
\* and no proxy works.
play_next_resolve_fails ==
    \E t \in TasksOf("play_next", "resolve") :
        /\ hist.skips < MaxSkips
        /\ LET s1 == play_next_resolved(t, FALSE)
           IN  /\ Apply(s1)
               /\ hist' = [Hist("", s1, TRUE) EXCEPT
                              !.skips = IF s1.drained THEN 0 ELSE hist.skips + 1]
        /\ UNCHANGED <<loop, loop_queue, rs, disk, expansion, resp, volume, cog>>

\* --------------------------------------------------- preload_next_song()
preload_start ==
    \E t \in TasksOf("preload", "start") :
        /\ LET s1 == Without(t)
               n == Head(queue)
               key == song_key(s1, n)
           IN  Step(IF queue = << >> THEN s1
                    ELSE IF key \in CacheKeys(preloaded_sources) THEN s1
                    ELSE IF songs[n].source_type = "local" THEN s1
                    ELSE IF songs[n].source_type = "spotify" /\ songs[n].url[1] = "search"
                    THEN spawn(s1, Task("preload", "search", key, NoUrl, FALSE))
                    ELSE spawn(s1, Task("preload", "resolve", key, songs[n].url, FALSE)))
        /\ UNCHANGED <<loop, loop_queue, rs, disk, expansion, resp, volume, cog>>

\* cog.process_youtube returns inside the prefetch (lines 591-604).
preload_search_done ==
    \E t \in TasksOf("preload", "search"), found \in BOOLEAN :
        /\ LET n == t.key[2]
               s1 == Without(t)
               s2 == IF found THEN [s1 EXCEPT !.songs[n].url = <<"yt", n>>] ELSE s1
           IN  Step(spawn(s2, Task("preload", "resolve", t.key, s2.songs[n].url, t.mark)))
        /\ UNCHANGED <<loop, loop_queue, rs, disk, expansion, resp, volume, cog>>

\* self.preloaded_sources[song_key] = source (lines 605 and 614)
PreloadStore(st, t) ==
    [st EXCEPT !.preloaded_sources = CachePut(@, t.key, t.url)]

\* from_url returns or raises inside the prefetch (lines 600-618).
preload_resolve_done ==
    \E t \in TasksOf("preload", "resolve"), ok \in BOOLEAN :
        /\ LET s1 == IF ok THEN PreloadStore(Without(t), t) ELSE Without(t)
           IN  /\ Apply(s1)
               /\ hist' = IF ok /\ t.mark
                          THEN [Hist("stale_prefetch", s1, TRUE) EXCEPT !.key = t.key]
                          ELSE Hist("", s1, TRUE)
        /\ UNCHANGED <<loop, loop_queue, rs, disk, expansion, resp, volume, cog>>

\* ------------------------------------------------------------ user commands
\* A command that answers with an error message and returns.
Rejected(op) ==
    /\ hist' = Hist(op, St, FALSE)
    /\ UNCHANGED <<queue, current, loop, loop_queue, pending_playlist,
                   preloaded_sources, songs, created, connected, player, paused,
                   tasks, rs, disk, expansion, resp, volume, cog>>

\* A slip of the rejection below: repeat-song is switched off before the
\* transport is looked at.
skip_rejected_clears_loop ==
    /\ ~(connected /\ is_playing(St))
    /\ hist' = Hist("skip_rejected", St, FALSE)
    /\ loop' = FALSE
    /\ UNCHANGED <<queue, current, loop_queue, pending_playlist,
                   preloaded_sources, songs, created, connected, player, paused,
                   tasks, rs, disk, expansion, resp, volume, cog>>

\* MusicCog.skip and MusicControlView.skip_button with no voice client or
\* with a voice client that is not playing: "Nothing is playing!".
skip_rejected ==
    /\ ~(connected /\ is_playing(St))
    /\ Rejected("skip_rejected")

\* MusicCog.skip and MusicControlView.skip_button up to
\* interaction.response.defer().
skip ==
    /\ connected /\ is_playing(St)
    /\ Command("", spawn(St, Task("skip", "stop", <<NoUrl, current>>, NoUrl, loop)))
    /\ loop' = FALSE
    /\ UNCHANGED <<loop_queue, rs, disk, expansion, resp, volume, cog>>

\* The rest of skip: voice_client.stop().
skip_stop ==
    \E t \in TasksOf("skip", "stop") :
        /\ LET s1 == vc_stop(Without(t))
           IN  /\ Apply(s1)
               /\ hist' = IF t.mark /\ player # NoUrl
                          THEN [Hist("skip_loop", s1, FALSE) EXCEPT !.key = t.key]
                          ELSE Hist("", s1, FALSE)
        /\ UNCHANGED <<loop, loop_queue, rs, disk, expansion, resp, volume, cog>>

\* A prefetch suspended in an await when stop() runs.
MarkPreload(t) ==
    IF t.kind = "preload" /\ t.pc # "start" THEN [t EXCEPT !.mark = TRUE] ELSE t

Stopped(st) ==
    LET s1 == [st EXCEPT !.queue = << >>, !.current = None, !.preloaded_sources = {},
                         !.tasks = BagOfAll(MarkPreload, @)]
    IN  IF st.connected THEN vc_stop(s1) ELSE s1

StopTag ==
    IF connected /\ player # NoUrl THEN "stop"
    ELSE IF TasksOf("play_next", "resolve") # {} THEN "stop_pending"
    ELSE ""

\* MusicCog.stop
stop ==
    /\ Command(StopTag, Stopped(St))
    /\ loop' = FALSE
    /\ loop_queue' = FALSE
    /\ UNCHANGED <<rs, disk, expansion, resp, volume, cog>>

\* MusicControlView.stop_button
stop_button ==
    /\ Command(StopTag, Stopped([St EXCEPT !.pending_playlist = NoPlaylist]))
    /\ loop' = FALSE
    /\ loop_queue' = FALSE
    /\ UNCHANGED <<rs, disk, expansion, resp, volume, cog>>

\* A slip of the handler below: "queue" leaves repeat-song as it is.
MusicCog_loop_keeps_song ==
    \E mode \in {"song", "queue", "off"} :
        /\ Command("", St)
        /\ loop' = IF mode = "queue" THEN loop ELSE (mode = "song")
        /\ loop_queue' = (mode = "queue")
        /\ UNCHANGED <<rs, disk, expansion, resp, volume, cog>>

\* MusicCog.loop
MusicCog_loop ==
    \E mode \in {"song", "queue", "off"} :
        /\ Command("", St)
        /\ loop' = (mode = "song")
        /\ loop_queue' = (mode = "queue")
        /\ UNCHANGED <<rs, disk, expansion, resp, volume, cog>>

\* A slip of the orders below: a position may be drawn twice.
OrdersWithRepeats(n) == [1 .. n -> 1 .. n]

\* random.shuffle: the orders of n positions.
Orders(n) == {f \in [1 .. n -> 1 .. n] : \A i, j \in 1 .. n : f[i] = f[j] => i = j}

\* MusicCog.shuffle and MusicControlView.shuffle_button with fewer than two
\* songs queued: "Not enough songs to shuffle!".
shuffle_rejected ==
    /\ Len(queue) < 2
    /\ Rejected("shuffle_rejected")

\* MusicCog.shuffle and MusicControlView.shuffle_button
shuffle ==
    /\ Len(queue) >= 2
    /\ \E f \in Orders(Len(queue)) :
           Command("", spawn([St EXCEPT !.queue = [i \in 1 .. Len(queue) |-> queue[f[i]]],
                                        !.preloaded_sources = {}], PreloadTask))
    /\ UNCHANGED <<loop, loop_queue, rs, disk, expansion, resp, volume, cog>>

\* MusicCog.clear
clear ==
    /\ Command("", [St EXCEPT !.queue = << >>, !.preloaded_sources = {}])
    /\ UNCHANGED <<loop, loop_queue, rs, disk, expansion, resp, volume, cog>>

RemoveAt(q, pos) == SubSeq(q, 1, pos - 1) \o SubSeq(q, pos + 1, Len(q))

\* A slip of the handler below: the position is taken as an index from 0.
MusicCog_remove_from_zero(position) ==
    IF position < 0 \/ position >= Len(queue)
    THEN Rejected("remove_rejected")
    ELSE /\ Command("", [St EXCEPT !.queue = RemoveAt(@, position + 1)])
         /\ UNCHANGED <<loop, loop_queue, rs, disk, expansion, resp, volume, cog>>

\* MusicCog.remove called with position.
MusicCog_remove(position) ==
    IF position < 1 \/ position > Len(queue)
    THEN Rejected("remove_rejected")
    ELSE /\ Command("", [St EXCEPT !.queue = RemoveAt(@, position)])
         /\ UNCHANGED <<loop, loop_queue, rs, disk, expansion, resp, volume, cog>>

\* MusicCog.remove with a position in the queue.
remove == \E position \in 1 .. Len(queue) : MusicCog_remove(position)

\* MusicCog.remove with any position from 0 to one past the queue.
remove_any == \E position \in 0 .. Len(queue) + 1 : MusicCog_remove(position)

\* ------------------------------------------------- the playlist cursor
\* The playlists a /play can name: up to MaxEntries entries or tracks, entry k
\* being video k or a placeholder, the first one a video.
Playlists ==
    UNION {{e \in [1 .. n -> 0 .. n] : e[1] = 1 /\ \A k \in 1 .. n : e[k] \in {0, k}} :
           n \in 1 .. MaxEntries}

\* The cursor a playlist enqueue leaves behind: all entries, the next index
\* after the one entry that was queued at once.
NewCursor(entries, spotify) ==
    [active |-> TRUE, is_spotify |-> spotify, entries |-> entries, current_index |-> 1]

\* /play of a playlist that captures a cursor: the first entry is queued at
\* once (process_youtube_playlist_initial, process_spotify_initial), the others
\* are kept for load_next_from_playlist.
play_playlist ==
    \E entries \in Playlists, spotify \in BOOLEAN :
        /\ created < MaxSongs
        /\ ~pending_playlist.active
        /\ \A t \in BagToSet(tasks) : t.pc # "refill" /\ t.kind # "load_next"
        /\ LET s1 == NewSong([St EXCEPT !.connected = TRUE,
                                        !.pending_playlist =
                                            NewCursor(entries, spotify)],
                             IF spotify THEN "spotify" ELSE "youtube",
                             <<"yt", entries[1]>>)
               s2 == IF ~is_playing(s1) /\ ~is_paused(s1)
                     THEN play_next_run(s1, MaxDepth) ELSE s1
           IN  /\ Apply(s2)
               /\ hist' = Hist("", s2, FALSE)
        /\ UNCHANGED <<loop, loop_queue, rs, disk, expansion, resp, volume, cog>>

\* A slip of the refill below: the track after the indexed one is looked up.
load_next_start_ahead ==
    \E t \in TasksOf("load_next", "start") :
        /\ LET s1 == Without(t)
               pl == pending_playlist
           IN  Step(IF refill_case(pl) = "search"
                    THEN spawn(s1, Task("load_next", "search", NoKey,
                                        <<"search",
                                          IF pl.current_index + 1 < Len(pl.entries)
                                          THEN EntryAt(Advance(pl)) ELSE 0>>,
                                        FALSE))
                    ELSE load_next_from_playlist(s1))
        /\ UNCHANGED <<loop, loop_queue, rs, disk, expansion, resp, volume, cog>>

\* The background refill play_next() spawned (line 648) runs up to its return
\* or its await.
load_next_start ==
    \E t \in TasksOf("load_next", "start") :
        /\ LET s1 == Without(t)
               pl == pending_playlist
           IN  Step(IF refill_case(pl) = "search"
                    THEN spawn(s1, Task("load_next", "search", NoKey,
                                        <<"search", EntryAt(pl)>>, FALSE))
                    ELSE load_next_from_playlist(s1))
        /\ UNCHANGED <<loop, loop_queue, rs, disk, expansion, resp, volume, cog>>

\* process_youtube returns to the background refill.
load_next_search_done ==
    \E t \in TasksOf("load_next", "search"), found \in BOOLEAN :
        /\ Step(refill_found(Without(t), t, found))
        /\ UNCHANGED <<loop, loop_queue, rs, disk, expansion, resp, volume, cog>>

\* process_youtube returns to the refill play_next() is waiting for (line 629).
play_next_refill_done ==
    \E t \in TasksOf("play_next", "refill"), found \in BOOLEAN :
        /\ Step(play_next_rest(refill_found(Without(t), t, found), MaxDepth))
        /\ UNCHANGED <<loop, loop_queue, rs, disk, expansion, resp, volume, cog>>

\* ------------------------------------------- one playlist expansion, counted
\* process_youtube_playlist_fast: a song for each of the first PlaylistCap
\* entries that is not None, all of them queued by /play; no cursor.
process_youtube_playlist_fast ==
    \E n \in 1 .. MaxPlaylist, hole \in BOOLEAN :
        /\ expansion.path = "none"
        /\ expansion' = [path |-> "fast", cursor |-> NoPlaylist,
                         queued |-> Videos(Take(PlaylistEntries(n, hole), PlaylistCap)),
                         last |-> ""]
        /\ UNCHANGED countVars

\* process_youtube_playlist_initial: a song for the first entry, and all the
\* entries handed back for the cursor.
process_youtube_playlist_initial ==
    \E n \in 1 .. MaxPlaylist, hole \in BOOLEAN :
        /\ expansion.path = "none"
        /\ LET all_entries == PlaylistEntries(n, hole)
           IN  expansion' = [path |-> "initial",
                             cursor |-> NewCursor(all_entries, FALSE),
                             queued |-> Videos(Take(all_entries, 1)),
                             last |-> ""]
        /\ UNCHANGED countVars

\* The playlists whose entries may raise when they are processed: entry k is
\* video k, a placeholder (0) or an entry that raises (-1), the first one a
\* video.
RaisingPlaylists ==
    UNION {{e \in [1 .. n -> -1 .. n] :
               e[1] = 1 /\ \A k \in 1 .. n : e[k] \in {-1, 0, k}} :
           n \in 1 .. MaxTracks}

\* A playlist enqueue that captures a cursor, its first entry queued at once.
playlist_captured ==
    \E entries \in RaisingPlaylists, spotify \in BOOLEAN :
        /\ expansion.path = "none"
        /\ expansion' = [path |-> "cursor", cursor |-> NewCursor(entries, spotify),
                         queued |-> 1, last |-> ""]
        /\ UNCHANGED countVars

\* One call of load_next_from_playlist on that cursor, from its first line to
\* its return, the lookup of a Spotify track (line 756) included.
load_next_counted ==
    /\ expansion.cursor.active
    /\ \E found \in BOOLEAN :
           LET todo == refill_case(expansion.cursor)
           IN  expansion' = [expansion EXCEPT
                                !.cursor = IF todo = "exhausted" THEN NoPlaylist
                                           ELSE IF todo = "raise" THEN @
                                           ELSE Advance(@),
                                !.queued = IF todo = "append" \/ (todo = "search" /\ found)
                                           THEN @ + 1 ELSE @,
                                !.last = todo]
    /\ UNCHANGED countVars

\* ------------------------------------------------- YTDLSource.from_url
PIPED_INSTANCES == 1 .. 3
INVIDIOUS_INSTANCES == 1 .. 6

\* The request to instance i of a provider (or the yt-dlp run) goes out.
Contact(r, stage, i) ==
    [r EXCEPT !.pc = stage, !.idx = i, !.log = Append(@, <<stage, i>>)]

\* from_url ends with an exception.
Raise(r) == [r EXCEPT !.pc = "done", !.result = "raise"]

\* Two slips of the fallback below: asking Invidious before Piped, and asking
\* the proxies for a URL that holds no video id.
FallbackInvidiousFirst(r) ==
    IF r.match THEN Contact(r, "invidious", 1) ELSE Raise(r)

FallbackAlways(r) == Contact(r, "piped", 1)

\* The code after the first try block (lines 346-380), up to its first await.
Fallback(r) ==
    IF r.match THEN Contact(r, "piped", 1) ELSE Raise(r)

\* What an instance can answer: a payload with an audio stream URL, no answer
\* in 15 seconds, a network error, a status other than 200, a payload that is
\* not the expected JSON, a payload without an audio entry.
Answers == {"url", "timeout", "error", "status", "malformed", "no_audio"}

\* A slip of the loop body below: the timeout is not caught.
piped_instance_raise(ans) ==
    IF ans = "timeout" THEN "raise"
    ELSE IF ans = "url" THEN "return"
    ELSE "next"

\* One iteration of the for loop of get_youtube_stream_piped: "return" the
\* URL, go on to the "next" instance, or let the exception out ("raise").
piped_instance(ans) ==
    IF ans \in {"timeout", "error", "malformed"} THEN "next"  \* except Exception
    ELSE IF ans = "status" THEN "next"                         \* resp.status # 200
    ELSE IF ans = "no_audio" THEN "next"                       \* no audio_streams / url
    ELSE "return"

\* One iteration of the for loop of get_youtube_stream_invidious.
invidious_instance(ans) ==
    IF ans = "timeout" THEN "next"                       \* except asyncio.TimeoutError
    ELSE IF ans \in {"error", "malformed"} THEN "next"   \* except Exception: continue
    ELSE IF ans = "status" THEN "next"
    ELSE IF ans = "no_audio" THEN "next"
    ELSE "return"

from_url_start ==
    /\ rs.pc = "idle"
    /\ \E m \in BOOLEAN : rs' = Contact([NoRun EXCEPT !.match = m], "cli", 0)
    /\ UNCHANGED playerVars

\* subprocess.run returns or raises; glob looks for the file.
cli_done ==
    /\ rs.pc = "cli"
    /\ \E out \in {"ok", "failed", "error"}, found \in BOOLEAN :
           LET r == [rs EXCEPT !.cli = out]
           IN  rs' = IF out = "ok" /\ found
                     THEN [r EXCEPT !.pc = "cleanup", !.file = TRUE]
                     ELSE Fallback(r)
    /\ UNCHANGED playerVars

\* cleanup_old_downloads returns or raises.
cleanup_done ==
    /\ rs.pc = "cleanup"
    /\ \E ok \in BOOLEAN :
           rs' = IF ok THEN [rs EXCEPT !.pc = "metadata"] ELSE Fallback(rs)
    /\ UNCHANGED playerVars

\* ytdl_search.extract_info returns data, returns nothing usable, or raises.
metadata_done ==
    /\ rs.pc = "metadata"
    /\ \E data \in {"data", "empty", "error"} :
           rs' = IF data = "data"
                 THEN [rs EXCEPT !.pc = "done", !.meta = data, !.result = "handle",
                                 !.source = <<"file", 0>>]
                 ELSE Fallback([rs EXCEPT !.meta = data])
    /\ UNCHANGED playerVars

\* One instance of get_youtube_stream_piped answers.
piped_try ==
    /\ rs.pc = "piped"
    /\ \E ans \in Answers :
           LET todo == piped_instance(ans)
           IN  rs' = IF todo = "return"
                     THEN [rs EXCEPT !.pc = "proxy_metadata",
                                     !.stream = <<"piped", rs.idx>>]
                     ELSE IF todo = "raise" THEN Raise(rs)
                     ELSE IF rs.idx + 1 \in PIPED_INSTANCES
                     THEN Contact(rs, "piped", rs.idx + 1)
                     ELSE Contact(rs, "invidious", 1)
    /\ UNCHANGED playerVars

\* One instance of get_youtube_stream_invidious answers.
invidious_try ==
    /\ rs.pc = "invidious"
    /\ \E ans \in Answers :
           LET todo == invidious_instance(ans)
           IN  rs' = IF todo = "return"
                     THEN [rs EXCEPT !.pc = "proxy_metadata",
                                     !.stream = <<"invidious", rs.idx>>]
                     ELSE IF todo = "raise" THEN Raise(rs)
                     ELSE IF rs.idx + 1 \in INVIDIOUS_INSTANCES
                     THEN Contact(rs, "invidious", rs.idx + 1)
                     ELSE Raise(rs)
    /\ UNCHANGED playerVars

\* extract_info for the proxy stream (lines 358-378).
proxy_metadata_done ==
    /\ rs.pc = "proxy_metadata"
    /\ \E data \in {"data", "empty", "error"} :
           rs' = IF data = "data"
                 THEN [rs EXCEPT !.pc = "done", !.result = "handle",
                                 !.source = rs.stream]
                 ELSE Raise(rs)
    /\ UNCHANGED playerVars

\* The caller has the handle or the exception.
from_url_return ==
    /\ rs.pc = "done"
    /\ rs' = NoRun
    /\ UNCHANGED playerVars

\* ------------------------------------------- cleanup_old_downloads
OnDisk(files) == {v \in VideoIds : files[v] # 0}

RECURSIVE SortByMtime(_, _)
\* files.sort(key=lambda x: os.path.getmtime(x))
SortByMtime(S, mtime) ==
    IF S = {} THEN << >>
    ELSE LET old == CHOOSE x \in S : \A y \in S : mtime[x] <= mtime[y]
         IN  <<old>> \o SortByMtime(S \ {old}, mtime)

\* files_to_delete = files[:len(files) - MAX_CACHED_SONGS]
files_to_delete(sorted) == SubSeq(sorted, 1, Len(sorted) - MAX_CACHED_SONGS)

\* The yt-dlp run of a from_url ends with exit code 0 and its file is there
\* (lines 315-325): the file of video v is written, or written over.
download_done ==
    \E r \in Runs, v \in VideoIds :
        /\ disk.runs[r].pc = "idle"
        /\ disk.clock < MaxDownloads
        /\ disk' = [disk EXCEPT !.files[v] = disk.clock + 1,
                                !.clock = @ + 1,
                                !.runs[r].pc = "glob",
                                !.runs[r].own = v]
        /\ UNCHANGED resolveVars

\* cleanup_old_downloads lists the files; at most MAX_CACHED_SONGS: done.
cleanup_glob ==
    \E r \in Runs :
        /\ disk.runs[r].pc = "glob"
        /\ LET files == OnDisk(disk.files)
           IN  disk' = IF Cardinality(files) > MAX_CACHED_SONGS
                       THEN [disk EXCEPT !.runs[r].pc = "sort", !.runs[r].files = files]
                       ELSE [disk EXCEPT !.runs[r] = Cleaned(@)]
        /\ UNCHANGED resolveVars

\* It sorts them by modification time; os.path.getmtime raises for a file
\* that is gone, which ends the cleanup with nothing deleted.
cleanup_sort ==
    \E r \in Runs :
        /\ disk.runs[r].pc = "sort"
        /\ LET files == disk.runs[r].files
           IN  disk' = IF files \subseteq OnDisk(disk.files)
                       THEN [disk EXCEPT
                                !.runs[r].pc = "remove",
                                !.runs[r].todo =
                                    files_to_delete(SortByMtime(files, disk.files))]
                       ELSE [disk EXCEPT !.runs[r] = Cleaned(@)]
        /\ UNCHANGED resolveVars

\* It deletes the next file of its list; os.remove of a file that is gone
\* raises, which is caught.
cleanup_remove ==
    \E r \in Runs :
        /\ disk.runs[r].pc = "remove"
        /\ LET todo == disk.runs[r].todo
           IN  disk' = IF Len(todo) = 1
                       THEN [disk EXCEPT !.files[Head(todo)] = 0, !.runs[r] = Cleaned(@)]
                       ELSE [disk EXCEPT !.files[Head(todo)] = 0,
                                         !.runs[r].todo = Tail(todo)]
        /\ UNCHANGED resolveVars

\* extract_info returns after the cleanup (lines 331-340): with data, from_url
\* returns a handle that plays the file it downloaded; without, it goes on to
\* the proxies.
extract_info_done ==
    \E r \in Runs, data \in BOOLEAN :
        /\ disk.runs[r].pc = "meta"
        /\ disk' = [disk EXCEPT !.runs[r] = NoCleanup,
                                !.handles = IF data THEN @ \cup {disk.runs[r].own}
                                            ELSE @]
        /\ UNCHANGED resolveVars

\* A handle is let go: its song ended or was skipped, or the prefetch cache
\* that held it was cleared.
handle_closed ==
    \E v \in disk.handles :
        /\ disk' = [disk EXCEPT !.handles = @ \ {v}]
        /\ UNCHANGED resolveVars

\* ------------------------------------------- the stream of a provider response
\* The entries a response can hold at position k.
EntriesAt(k, types) ==
    {[type |-> ty, has_bitrate |-> hb, bitrate |-> b, url |-> u] :
        ty \in types, hb \in BOOLEAN, b \in 0 .. MaxBitrate, u \in {None, k}}
        \ {e \in [type : types, has_bitrate : {FALSE}, bitrate : 1 .. MaxBitrate,
                   url : {None, k}] : TRUE}

RECURSIVE Responses(_, _)
Responses(n, types) ==
    IF n = 0 THEN {<< >>}
    ELSE {Append(r, e) : r \in Responses(n - 1, types), e \in EntriesAt(n, types)}

\* x.get('bitrate', 0)
Bitrate(x) == IF x.has_bitrate THEN x.bitrate ELSE 0

\* A slip of the choice below: the lowest bitrate wins.
WorstOf(streams) ==
    LET F[i \in 1 .. Len(streams)] ==
            IF i = 1 THEN 1
            ELSE IF Bitrate(streams[i]) < Bitrate(streams[F[i - 1]]) THEN i
            ELSE F[i - 1]
    IN  streams[F[Len(streams)]]

\* max(streams, key=lambda x: x.get('bitrate', 0)): the first of the entries
\* with the greatest key.
BestOf(streams) ==
    LET F[i \in 1 .. Len(streams)] ==
            IF i = 1 THEN 1
            ELSE IF Bitrate(streams[i]) > Bitrate(streams[F[i - 1]]) THEN i
            ELSE F[i - 1]
    IN  streams[F[Len(streams)]]

\* if audio_streams: best = max(...); stream_url = best.get('url');
\* if stream_url: return stream_url
stream_url(audio_streams) ==
    IF audio_streams = << >> THEN None ELSE BestOf(audio_streams).url

IsAudio(f) == f.type = "audio"

\* [f for f in data.get('adaptiveFormats', []) if f.get('type', '').startswith('audio')]
audio_formats(data) == SelectSeq(data, IsAudio)

\* An instance of Piped answers 200 with its audioStreams.
piped_response ==
    /\ resp.provider = "none"
    /\ \E n \in 0 .. MaxStreams :
        \E data \in Responses(n, {"audio"}) :
            /\ resp' = [provider |-> "piped", streams |-> data, url |-> stream_url(data)]
            /\ UNCHANGED respVars

\* An instance of Invidious answers 200 with its adaptiveFormats.
invidious_response ==
    /\ resp.provider = "none"
    /\ \E n \in 0 .. MaxStreams :
        \E data \in Responses(n, {"audio", "video"}) :
            /\ resp' = [provider |-> "invidious", streams |-> data,
                        url |-> stream_url(audio_formats(data))]
            /\ UNCHANGED respVars

\* The URL is returned, or the loop goes on to the next instance.
response_done ==
    /\ resp.provider # "none"
    /\ resp' = NoResponse
    /\ UNCHANGED respVars

\* -------------------------------------------------------------- the volume
\* MusicCog.volume: a level outside 0..100 is answered with an error.
MusicCog_volume ==
    \E level \in -LevelMargin .. MaxLevel + LevelMargin :
        /\ volume' = IF level < 0 \/ level > MaxLevel
                     THEN [v |-> volume.v, op |-> "rejected"]
                     ELSE [v |-> (level * FullVolume) \div MaxLevel, op |-> "set"]
        /\ UNCHANGED volumeVars

\* A slip of the button below: no min().
volume_up_button_no_min ==
    /\ volume' = [v |-> volume.v + VolumeStep, op |-> "up"]
    /\ UNCHANGED volumeVars

\* MusicControlView.volume_up_button: min(player.volume + 0.1, 1.0)
volume_up_button ==
    /\ volume' = [v |-> IF volume.v + VolumeStep < FullVolume
                        THEN volume.v + VolumeStep ELSE FullVolume,
                  op |-> "up"]
    /\ UNCHANGED volumeVars

\* MusicControlView.volume_down_button: max(player.volume - 0.1, 0.0)
volume_down_button ==
    /\ volume' = [v |-> IF volume.v - VolumeStep > 0 THEN volume.v - VolumeStep ELSE 0,
                  op |-> "down"]
    /\ UNCHANGED volumeVars

\* ------------------------------------------------------------ specifications
\* Every handler but /loop: the loop flags stay off.
Next ==
    \/ play
    \/ after_playing
    \/ pause
    \/ resume
    \/ play_next_start
    \/ play_next_search_done
    \/ play_next_resolve_done
    \/ preload_start
    \/ preload_search_done
    \/ preload_resolve_done
    \/ skip
    \/ skip_stop
    \/ stop
    \/ stop_button
    \/ shuffle
    \/ clear
    \/ remove

Spec == Init /\ [][Next]_vars

\* /play while fewer than MaxLoopSongs songs exist.
play_few == play /\ created' <= MaxLoopSongs

\* The loop modes: /loop and every handler that reads or resets the flags or
\* edits a queue of up to MaxLoopSongs songs.
NextLoop ==
    \/ play_few
    \/ after_playing
    \/ play_next_start
    \/ play_next_search_done
    \/ play_next_resolve_done
    \/ preload_start
    \/ preload_search_done
    \/ preload_resolve_done
    \/ MusicCog_loop
    \/ skip
    \/ skip_stop
    \/ stop
    \/ stop_button
    \/ clear
    \/ remove

SpecLoop == Init /\ [][NextLoop]_vars

\* Playback with no command but /play, /pause and /resume.
NextPlain ==
    \/ play
    \/ after_playing
    \/ pause
    \/ resume
    \/ play_next_start
    \/ play_next_search_done
    \/ play_next_resolve_done
    \/ preload_start
    \/ preload_search_done
    \/ preload_resolve_done

SpecPlain == Init /\ [][NextPlain]_vars

\* /play while no play_next() is in flight.
play_settled == play /\ \A t \in BagToSet(tasks) : t.kind # "play_next"

\* Plain playback in which /play never meets a play_next() in flight.
NextSettled ==
    \/ play_settled
    \/ after_playing
    \/ pause
    \/ resume
    \/ play_next_start
    \/ play_next_search_done
    \/ play_next_resolve_done
    \/ preload_start
    \/ preload_search_done
    \/ preload_resolve_done

SpecSettled == Init /\ [][NextSettled]_vars

\* Playback of a playlist behind a cursor, and the two stop handlers.
NextCursor ==
    \/ play_playlist
    \/ load_next_start
    \/ load_next_search_done
    \/ play_next_refill_done
    \/ after_playing
    \/ play_next_start
    \/ play_next_resolve_done
    \/ preload_start
    \/ preload_resolve_done
    \/ stop
    \/ stop_button

SpecCursor == Init /\ [][NextCursor]_vars

\* The bot joins while no play_next() started on an earlier voice client is
\* suspended.
play_ensure_voice_fresh ==
    /\ connected \/ \A t \in BagToSet(tasks) : t.kind # "play_next" \/ t.pc = "start"
    /\ play_ensure_voice

\* Playback while the bot joins and leaves the voice channel.
NextVoice ==
    \/ play_ensure_voice_fresh
    \/ play_enqueue
    \/ disconnect
    \/ after_playing
    \/ play_next_start
    \/ play_next_search_done
    \/ play_next_resolve_done
    \/ preload_start
    \/ preload_search_done
    \/ preload_resolve_done

SpecVoice == Init /\ [][NextVoice]_vars

\* /skip with the requests it rejects, /loop, /pause and /resume, on up to
\* MaxLoopSongs songs.
NextSkip ==
    \/ play_few
    \/ after_playing
    \/ pause
    \/ resume
    \/ play_next_start
    \/ play_next_resolve_done
    \/ preload_start
    \/ preload_resolve_done
    \/ MusicCog_loop
    \/ skip
    \/ skip_rejected
    \/ skip_stop

SpecSkip == Init /\ [][NextSkip]_vars

\* /shuffle and /remove with the requests they reject, and /loop.
NextEdit ==
    \/ play
    \/ after_playing
    \/ play_next_start
    \/ play_next_resolve_done
    \/ preload_start
    \/ preload_resolve_done
    \/ MusicCog_loop
    \/ shuffle
    \/ shuffle_rejected
    \/ remove_any

SpecEdit == Init /\ [][NextEdit]_vars

\* ------------------------------------------- the players of several guilds
\* A slip of the lookup below: asked whether there is any player at all.
get_player_any(c, g) ==
    IF c.made = 0
    THEN [c EXCEPT !.made = 1, !.players[g] = 1, !.heap[1] = MusicPlayer]
    ELSE [c EXCEPT !.players[g] = 1]

\* MusicCog.get_player
get_player(c, g) ==
    IF c.players[g] = 0
    THEN [c EXCEPT !.made = @ + 1, !.players[g] = c.made + 1,
                   !.heap[c.made + 1] = MusicPlayer]
    ELSE c

\* load_next_from_playlist on a cursor of YouTube entries, whose songs are
\* numbered by the entries.
player_load_next(p) ==
    LET pl == p.pending_playlist
        todo == refill_case(pl)
    IN  IF todo = "exhausted" THEN [p EXCEPT !.pending_playlist = NoPlaylist]
        ELSE IF todo = "skip" THEN [p EXCEPT !.pending_playlist = Advance(pl)]
        ELSE IF todo = "append"
        THEN [p EXCEPT !.queue = Append(@, EntryAt(pl)),
                       !.pending_playlist = Advance(pl)]
        ELSE p

\* play_next() of one player, on songs that are local files, up to
\* voice_client.play.
player_play_next(p) ==
    LET p1 == [p EXCEPT !.queue = Reinsert(@, p.current, p.loop, p.loop_queue)]
        p2 == IF p1.queue = << >> /\ p1.pending_playlist.active
              THEN player_load_next(p1) ELSE p1
    IN  IF p2.queue = << >>
        THEN [p2 EXCEPT !.current = None, !.preloaded_sources = {}]
        ELSE [p2 EXCEPT !.current = Head(p2.queue), !.queue = Tail(@),
                        !.preloaded_sources = @ \ {Head(p2.queue)}]

\* play_next() on the player of guild g, and what the voice client then does.
guild_play_next(c, g) ==
    LET p == player_play_next(c.heap[c.players[g]])
    IN  [c EXCEPT !.heap[c.players[g]] = p,
                  !.vc[g] = IF p.current # None THEN "playing" ELSE "silent"]

\* /play in guild g: one song, or a playlist whose first entry is queued and
\* whose entries are kept behind a cursor.
guild_play(g) ==
    \E playlist \in BOOLEAN :
        /\ cog.nsongs + (IF playlist THEN 2 ELSE 1) <= MaxGuildSongs
        /\ LET c1 == get_player([cog EXCEPT !.vc[g] = IF @ = "none" THEN "silent" ELSE @],
                                g)
               n == cog.nsongs + 1
               c2 == [c1 EXCEPT
                         !.heap[c1.players[g]].queue = Append(@, n),
                         !.heap[c1.players[g]].pending_playlist =
                             IF playlist
                             THEN [NewCursor(<<n, n + 1>>, FALSE)
                                      EXCEPT !.current_index = 1]
                             ELSE @,
                         !.nsongs = @ + (IF playlist THEN 2 ELSE 1)]
           IN  cog' = IF c2.vc[g] = "silent" THEN guild_play_next(c2, g) ELSE c2
        /\ UNCHANGED cogVars

\* The source of guild g ends: after_playing schedules play_next().
guild_after_playing(g) ==
    /\ cog.vc[g] = "playing"
    /\ cog' = [cog EXCEPT !.vc[g] = "ended"]
    /\ UNCHANGED cogVars

\* That play_next() runs.
guild_play_next_start(g) ==
    /\ cog.vc[g] = "ended"
    /\ cog' = guild_play_next(cog, g)
    /\ UNCHANGED cogVars

\* A background refill of guild g runs.
guild_load_next(g) ==
    /\ cog.players[g] # 0
    /\ cog.heap[cog.players[g]].pending_playlist.active
    /\ cog' = [cog EXCEPT !.heap[cog.players[g]] = player_load_next(@)]
    /\ UNCHANGED cogVars

\* The prefetch of guild g stores the handle of the next song.
guild_preload(g) ==
    /\ cog.vc[g] = "playing"
    /\ cog.heap[cog.players[g]].queue # << >>
    /\ cog' = [cog EXCEPT !.heap[cog.players[g]] =
                              [@ EXCEPT !.preloaded_sources = @ \cup {Head(cog.heap[cog.players[g]].queue)}]]
    /\ UNCHANGED cogVars

\* MusicCog.skip in guild g, its voice client playing.
guild_skip(g) ==
    /\ cog.vc[g] = "playing"
    /\ LET c1 == get_player(cog, g)
       IN  cog' = [c1 EXCEPT !.heap[c1.players[g]].loop = FALSE, !.vc[g] = "ended"]
    /\ UNCHANGED cogVars

\* MusicCog.stop in guild g.
guild_stop(g) ==
    /\ LET c1 == get_player(cog, g)
       IN  cog' = [c1 EXCEPT
                      !.heap[c1.players[g]] =
                          [@ EXCEPT !.queue = << >>, !.current = None, !.loop = FALSE,
                                    !.loop_queue = FALSE, !.preloaded_sources = {}],
                      !.vc[g] = IF @ = "playing" THEN "ended" ELSE @]
    /\ UNCHANGED cogVars

\* MusicCog.shuffle in guild g, two songs or more queued.
guild_shuffle(g) ==
    /\ LET c1 == get_player(cog, g)
           q == c1.heap[c1.players[g]].queue
       IN  /\ Len(q) >= 2
           /\ \E f \in Orders(Len(q)) :
                  cog' = [c1 EXCEPT
                             !.heap[c1.players[g]] =
                                 [@ EXCEPT !.queue = [i \in 1 .. Len(q) |-> q[f[i]]],
                                           !.preloaded_sources = {}]]
    /\ UNCHANGED cogVars

\* MusicCog.remove in guild g, the position in the queue.
guild_remove(g) ==
    /\ LET c1 == get_player(cog, g)
       IN  \E position \in 1 .. Len(c1.heap[c1.players[g]].queue) :
               cog' = [c1 EXCEPT !.heap[c1.players[g]].queue = RemoveAt(@, position)]
    /\ UNCHANGED cogVars

\* MusicCog.clear in guild g.
guild_clear(g) ==
    /\ LET c1 == get_player(cog, g)
       IN  cog' = [c1 EXCEPT !.heap[c1.players[g]] =
                                 [@ EXCEPT !.queue = << >>, !.preloaded_sources = {}]]
    /\ UNCHANGED cogVars

\* MusicCog.loop in guild g.
guild_loop(g) ==
    /\ \E mode \in {"song", "queue", "off"} :
           LET c1 == get_player(cog, g)
           IN  cog' = [c1 EXCEPT !.heap[c1.players[g]] =
                                     [@ EXCEPT !.loop = (mode = "song"),
                                               !.loop_queue = (mode = "queue")]]
    /\ UNCHANGED cogVars

\* MusicCog.volume in guild g, the level MaxLevel.
guild_volume(g) ==
    /\ \E level \in {MaxLevel} :
           LET c1 == get_player(cog, g)
           IN  cog' = [c1 EXCEPT !.heap[c1.players[g]].volume =
                                     (level * FullVolume) \div MaxLevel]
    /\ UNCHANGED cogVars

\* The handlers of several guilds, interleaved.
NextGuilds ==
    \/ \E g \in Guilds : guild_play(g)
    \/ \E g \in Guilds : guild_after_playing(g)
    \/ \E g \in Guilds : guild_play_next_start(g)
    \/ \E g \in Guilds : guild_load_next(g)
    \/ \E g \in Guilds : guild_preload(g)
    \/ \E g \in Guilds : guild_skip(g)
    \/ \E g \in Guilds : guild_stop(g)
    \/ \E g \in Guilds : guild_shuffle(g)
    \/ \E g \in Guilds : guild_remove(g)
    \/ \E g \in Guilds : guild_clear(g)
    \/ \E g \in Guilds : guild_loop(g)
    \/ \E g \in Guilds : guild_volume(g)

SpecGuilds == Init /\ [][NextGuilds]_vars

\* /play of songs that are no local files.
play_remote == play /\ \A i \in SongIds : songs'[i].source_type # "local"

\* Every resolution fails: /play, /loop and play_next() on its own.
NextFailing ==
    \/ play_remote
    \/ MusicCog_loop
    \/ play_next_search_done
    \/ play_next_resolve_fails

SpecFailing == Init /\ [][NextFailing]_vars

\* One run of YTDLSource.from_url after the other.
NextResolve ==
    \/ from_url_start
    \/ cli_done
    \/ cleanup_done
    \/ metadata_done
    \/ piped_try
    \/ invidious_try
    \/ proxy_metadata_done
    \/ from_url_return

SpecResolve == Init /\ [][NextResolve]_vars

\* from_url runs that download and clean up, their executor threads overlapping.
NextDownloads ==
    \/ download_done
    \/ cleanup_glob
    \/ cleanup_sort
    \/ cleanup_remove
    \/ extract_info_done
    \/ handle_closed

SpecDownloads == Init /\ [][NextDownloads]_vars

\* One playlist expansion and the refills of the cursor it left behind.
NextExpansion ==
    \/ process_youtube_playlist_fast
    \/ process_youtube_playlist_initial
    \/ load_next_counted

SpecExpansion == Init /\ [][NextExpansion]_vars

\* Calls of load_next_from_playlist, one after the other, on a cursor whose
\* entries may raise.
NextRefill ==
    \/ playlist_captured
    \/ load_next_counted

SpecRefill == Init /\ [][NextRefill]_vars

\* Responses of provider instances, one after the other.
NextResponses ==
    \/ piped_response
    \/ invidious_response
    \/ response_done

SpecResponses == Init /\ [][NextResponses]_vars

\* /volume and the two volume buttons.
NextVolume ==
    \/ MusicCog_volume
    \/ volume_up_button
    \/ volume_down_button

SpecVolume == Init /\ [][NextVolume]_vars

\* ================================================================ properties
SongCount(cur, q, s) ==
    Cardinality({i \in 1 .. Len(q) : q[i] = s}) + (IF cur = s THEN 1 ELSE 0)

\* The songs from + 1 .. to, in the order /play created them.
Enqueued(from, to) == [i \in 1 .. (to - from) |-> from + i]

\* C1: with repeat-song on and a song current, every play_next() leaves the
\* queue as long as it was and the same song current.
C1_RepeatSongKeepsQueue ==
    [][(hist'.op = "repeat_song" /\ created' = created)
        => (current' = current /\ Len(queue') = Len(queue))]_vars

C1_Witness == hist.op = "repeat_song" /\ loop /\ current # None /\ queue # << >>

\* C2: with repeat-queue on, every play_next(), also one that re-invokes
\* itself after a failure, keeps the multiset of current plus queue.
C2_RepeatQueueKeepsSongs ==
    [][(hist'.op = "repeat_queue" /\ created' = created)
        => \A s \in SongIds :
               SongCount(current', queue', s) = SongCount(current, queue, s)]_vars

C2_Witness ==
    hist.op = "repeat_queue" /\ loop_queue /\ current # None /\ queue # << >>

\* C3: with loop off and no command but /play, the k-th play_next() makes the
\* k-th enqueued song current and leaves the later ones queued in order; the
\* play_next() after the last song leaves current None and the queue empty.
C3_FifoOrder ==
    hist.plain =>
        IF hist.nadv = 0 THEN current = None
        ELSE IF hist.nadv <= created
        THEN current = hist.nadv /\ queue = Enqueued(hist.nadv, created)
        ELSE current = None /\ queue = << >>

C3_Witness ==
    /\ hist.plain /\ created = MaxSongs /\ hist.nadv = MaxSongs + 1
    /\ current = None /\ queue = << >>

\* C4: the prefetch cache never holds more than one entry.
C4_CacheAtMostOne == Cardinality(preloaded_sources) <= 1

\* C5: every entry of the prefetch cache belongs to the song at the head of
\* the queue.
C5_CacheKeyedByHead ==
    \A e \in preloaded_sources : queue # << >> /\ e[1][2] = Head(queue)

\* C6: shuffle, clear, remove and stop leave the prefetch cache empty when
\* they return.
C6_CommandsInvalidate ==
    [][(shuffle \/ clear \/ remove \/ stop \/ stop_button)
        => preloaded_sources' = {}]_vars

\* C7: a prefetch that was suspended in resolution when stop ran does not
\* put its handle into the cache when it completes.
C7_StalePrefetchDiscarded ==
    hist.op = "stale_prefetch" => hist.key \notin CacheKeys(preloaded_sources)

\* C8: after stop and the play_next() its finished signal starts, the queue
\* is empty, nothing is current, both loop flags are off, the cache is empty
\* and the voice client holds no source.
C8_StopLeavesIdle ==
    hist.op = "stop_advance"
        => /\ queue = << >> /\ current = None
           /\ ~loop /\ ~loop_queue
           /\ preloaded_sources = {}
           /\ player = NoUrl

\* C9: after the play_next() that the stop of a skip issued with repeat-song
\* on starts, the skipped song is neither current nor queued.
C9_SkipAdvancesPast ==
    (hist.op = "skip_advance" /\ hist.key[2] # None)
        => /\ current # hist.key[2]
           /\ \A i \in 1 .. Len(queue) : queue[i] # hist.key[2]

\* C10: from_url raises only if the download left no file and no Piped or
\* Invidious instance returned a stream URL.
C10_FailsOnlyIfAllFailed ==
    (rs.pc = "done" /\ rs.result = "raise") => (~rs.file /\ rs.stream = NoStream)

\* The endpoints of the cascade in the order of the source: the yt-dlp run,
\* the Piped instances, the Invidious instances.
CascadeOrder ==
    <<<<"cli", 0>>>> \o [i \in PIPED_INSTANCES |-> <<"piped", i>>]
                    \o [i \in INVIDIOUS_INSTANCES |-> <<"invidious", i>>]

IsPrefix(a, b) == Len(a) <= Len(b) /\ a = SubSeq(b, 1, Len(a))

\* C11: the endpoints are contacted in the order yt-dlp, Piped, Invidious, a
\* later one only after every earlier one gave no handle; nothing is contacted
\* after an instance returned a stream URL, and the handle from_url returns
\* after the download gave none plays exactly that URL.
C11_CascadeInOrder ==
    /\ IsPrefix(rs.log, CascadeOrder)
    /\ rs.stream # NoStream => rs.log[Len(rs.log)] = rs.stream
    /\ (rs.pc = "done" /\ rs.result = "handle")
           => rs.source = IF Len(rs.log) > 1 THEN rs.stream ELSE <<"file", 0>>

C11_Witness ==
    /\ rs.pc = "done" /\ rs.result = "handle"
    /\ rs.source[1] = "invidious"
    /\ Len(rs.log) = 1 + Cardinality(PIPED_INSTANCES) + rs.source[2]

\* C12: when the URL holds no video id and the download gives no handle,
\* from_url raises and no Piped or Invidious instance was contacted.
C12_NoIdFailsAtOnce ==
    /\ ~rs.match => \A i \in 1 .. Len(rs.log) : rs.log[i][1] = "cli"
    /\ (rs.pc = "done" /\ ~rs.match /\ rs.source # <<"file", 0>>)
           => rs.result = "raise"

C12_Witness ==
    /\ rs.pc = "done" /\ ~rs.match /\ rs.cli = "failed"
    /\ rs.result = "raise" /\ rs.log = <<<<"cli", 0>>>>

\* C19: when the download left a file and the metadata lookup that follows
\* fails or returns nothing, from_url contacts no proxy and returns a handle
\* that plays the file.
C19_MetadataFailureNotFatal ==
    (rs.file /\ rs.meta \in {"empty", "error"})
        => /\ Len(rs.log) = 1
           /\ rs.pc = "done" => (rs.result = "handle" /\ rs.source = <<"file", 0>>)

\* C20: the instances of a provider are asked in list order starting with the
\* first; once an instance returned a stream URL no other is asked; a failing
\* instance never ends the run: when from_url raises with no stream URL after
\* asking a proxy, every Piped and every Invidious instance was asked.
C20_InstanceFailuresContained ==
    /\ \A i \in 2 .. Len(rs.log) :
           rs.log[i][2] = IF rs.log[i][1] = rs.log[i - 1][1]
                          THEN rs.log[i - 1][2] + 1 ELSE 1
    /\ rs.stream # NoStream => rs.pc \in {"proxy_metadata", "done"}
    /\ (rs.pc = "invidious" \/ (rs.stream # NoStream /\ rs.stream[1] = "invidious"))
           => \A p \in PIPED_INSTANCES : rs.log[1 + p] = <<"piped", p>>
    /\ (rs.pc = "done" /\ rs.result = "raise" /\ rs.stream = NoStream
            /\ Len(rs.log) > 1)
           => rs.log = CascadeOrder

C20_Witness ==
    /\ rs.pc = "done" /\ rs.result = "raise" /\ rs.stream = NoStream
    /\ rs.log = CascadeOrder

\* C13: whenever no cleanup is under way the download cache holds at most
\* MAX_CACHED_SONGS files, and a file that a cleanup deletes is older than
\* every file that stays.
C13_CacheKeepsNewest ==
    [][/\ (\A r \in Runs : disk'.runs[r].pc = "idle")
           => Cardinality(OnDisk(disk'.files)) <= MAX_CACHED_SONGS
       /\ \A v \in OnDisk(disk.files) \ OnDisk(disk'.files) :
              \A w \in OnDisk(disk'.files) : disk.files[v] < disk'.files[w]]_vars

\* C14: when every resolution fails, play_next() goes on to the next song no
\* more often in a row than there are songs, in every loop mode.
C14_AutoSkipsBounded == hist.skips <= created

\* What a refill that returns at once does, told from the cursor it started
\* with: exhausted, a placeholder, or a YouTube entry; a Spotify track only
\* starts its search.
RefillAtOnce ==
    LET pl == pending_playlist
        idx == pl.current_index
        new == created + 1
    IN  pl.active =>
            IF idx >= Len(pl.entries)
            THEN queue' = queue /\ ~pending_playlist'.active
            ELSE IF pl.entries[idx + 1] = 0
            THEN queue' = queue /\ pending_playlist' = [pl EXCEPT !.current_index = idx + 1]
            ELSE IF pl.is_spotify
            THEN queue' = queue /\ pending_playlist' = pl
            ELSE /\ queue' = Append(queue, new)
                 /\ songs'[new].url = <<"yt", pl.entries[idx + 1]>>
                 /\ pending_playlist' = [pl EXCEPT !.current_index = idx + 1]

\* The refill of a Spotify track appended one song for an entry of the cursor.
RefillAppended ==
    LET new == created + 1
    IN  /\ queue' = Append(queue, new)
        /\ \E k \in 1 .. Len(pending_playlist.entries) :
               /\ pending_playlist.entries[k] # 0
               /\ songs'[new].url = <<"yt", pending_playlist.entries[k]>>

RefillAdvanced ==
    pending_playlist' =
        [pending_playlist EXCEPT !.current_index = pending_playlist.current_index + 1]

C16_AtMostFifty == expansion.queued <= PlaylistCap

\* The songs a step created, in the order they were created.
NewSongs == [j \in 1 .. (created' - created) |-> created + j]

\* In the queue after the step, a new song is followed by later new songs only.
NewSongsAtTail ==
    \A i, j \in 1 .. Len(queue') :
        i < j /\ queue'[i] > created => queue'[j] > queue'[i]

SourceAtOnce(c) ==
    IF song_key(St, c) \in CacheKeys(preloaded_sources)
    THEN CacheGet(preloaded_sources, song_key(St, c))
    ELSE IF songs[c].source_type = "local" THEN songs[c].url
    ELSE NoUrl

\* C21: with loop off, when from_url raises for the song play_next() popped,
\* that song is neither current nor queued afterwards, and the song queued
\* behind it is current and started: the transport plays its source, or
\* play_next() is resolving it.
C21_FailedSongDroppedNextStarted ==
    [][\A t \in TasksOf("play_next", "resolve") :
          (t.key[2] = current /\ Apply(play_next_resolved(t, FALSE))) =>
              /\ current' # t.key[2]
              /\ \A i \in 1 .. Len(queue') : queue'[i] # t.key[2]
              /\ queue # << >> =>
                    /\ current' = Head(queue)
                    /\ IF SourceAtOnce(Head(queue)) # NoUrl
                       THEN player' = SourceAtOnce(Head(queue))
                       ELSE \E u \in BagToSet(tasks') :
                               u.kind = "play_next" /\ u.key[2] = Head(queue)
    ]_vars

\* The cursor still holds an entry that is no placeholder.
HasValidEntry(pl) ==
    pl.active /\ \E k \in pl.current_index + 1 .. Len(pl.entries) : pl.entries[k] # 0

\* C22: a play_next() that ends with nothing current and nothing queued leaves
\* no cursor with a valid entry behind: it refilled until a song was appended
\* or the cursor was exhausted.
C22_RefillsUntilSongOrExhausted ==
    [][(/\ hist'.op \in {"advance", "skip_advance", "stop_advance"}
        /\ current' = None /\ queue' = << >>
        /\ TasksOf("play_next", "refill")' = {})
       => ~HasValidEntry(pending_playlist')]_vars

\* C23: a refill that moves the index of the pending cursor leaves it below
\* the entry count, or leaves no cursor: a cursor whose index has reached its
\* entry count does not exist.
C23_CursorOnlyBelowCount ==
    [][(/\ pending_playlist.active /\ pending_playlist'.active
        /\ pending_playlist'.current_index > pending_playlist.current_index)
       => pending_playlist'.current_index < Len(pending_playlist'.entries)]_vars

\* The handles the cache holds for song c, whatever key they are stored under.
CachedFor(c, cache) == {e[2] : e \in {f \in cache : f[1][2] = c}}

\* C24: when play_next() pops a song that a completed prefetch left a handle
\* for, the transport being silent, it plays that handle, does not resolve
\* the song again and takes the handle out of the cache, whatever the song's
\* source type.
C24_CachedHandleIsPlayed ==
    [][(/\ hist'.op = "advance"
        /\ queue # << >> /\ connected /\ player = NoUrl
        /\ CachedFor(Head(queue), preloaded_sources) # {})
       => /\ player' \in CachedFor(Head(queue), preloaded_sources)
          /\ CachedFor(Head(queue), preloaded_sources') = {}
          /\ \A t \in BagToSet(tasks') :
                ~(t.kind = "play_next" /\ t.key[2] = Head(queue))]_vars

\* A step of the prefetch.
PrefetchStep == preload_start \/ preload_search_done \/ preload_resolve_done

\* The play_next() coroutines in flight.
Advances(b) == {t \in BagToSet(b) : t.kind = "play_next"}

\* C25: a song popped by a play_next() that /play or the finished signal
\* started, while the cache has no handle under its key, is resolved by
\* play_next() itself (a local file is played at once) and is started when
\* that resolution succeeds, the transport being silent; and no step of a
\* prefetch, whenever it comes, changes the current song, the transport or
\* the play_next() coroutines in flight.
C25_MissResolvesAndPrefetchIsHarmless ==
    [][/\ (/\ play_next_start \/ play
           /\ queue # << >> /\ connected /\ player = NoUrl
           /\ song_key(St, Head(queue)) \notin CacheKeys(preloaded_sources))
          => /\ current' = Head(queue)
             /\ IF songs[Head(queue)].source_type = "local"
                THEN player' = songs[Head(queue)].url
                ELSE \E t \in Advances(tasks') :
                        t.key[2] = Head(queue) /\ t.pc \in {"search", "resolve"}
       /\ \A t \in TasksOf("play_next", "resolve") :
              (/\ t.key[2] = current /\ player = NoUrl
               /\ Apply(play_next_resolved(t, TRUE)))
              => player' = t.url /\ current' = current
       /\ PrefetchStep =>
              /\ current' = current
              /\ player' = player /\ paused' = paused
              /\ Advances(tasks') = Advances(tasks)
    ]_vars

\* The prefetch of a song is still resolving while that song, resolved by
\* play_next() itself, is current and playing.
C25_Witness ==
    /\ current # None /\ is_playing(St) /\ player = <<"yt", current>>
    /\ \E t \in TasksOf("preload", "resolve") : t.key[2] = current

\* The calls of process_youtube for song n that a prefetch or a play_next()
\* is waiting for.
Translations(n, b) == {t \in BagToSet(b) : t.pc = "search" /\ t.key[2] = n}

\* C26: a search-pending song is translated at most once: no two calls of
\* process_youtube for one song are ever in flight together, and a call that
\* returns a result overwrites the url of a song that still holds its search
\* marker.
C26_TranslatedAtMostOnce ==
    [][/\ \A n \in SongIds :
              /\ Cardinality(Translations(n, tasks')) <= 1
              /\ \A t \in Translations(n, tasks') : CopiesIn(t, tasks') = 1
       /\ \A t \in TasksOf("preload", "search") :
              LET s2 == [Without(t) EXCEPT !.songs[t.key[2]].url = <<"yt", t.key[2]>>]
              IN  Step(spawn(s2, Task("preload", "resolve", t.key,
                                      s2.songs[t.key[2]].url, t.mark)))
                      => songs[t.key[2]].url[1] = "search"
       /\ \A t \in TasksOf("play_next", "search") :
              LET s2 == [Without(t) EXCEPT !.songs[current].url = <<"yt", t.key[2]>>]
              IN  (current = t.key[2] /\
                   Step(spawn(s2, Task("play_next", "resolve", t.key,
                                       s2.songs[current].url, t.mark))))
                      => songs[current].url[1] = "search"
    ]_vars

\* The calls of process_youtube a step makes: the tasks waiting in one after
\* the step that were not waiting before it.
NewTranslations ==
    {t \in BagToSet(tasks') :
        /\ t.pc \in {"search", "refill"}
        /\ CopiesIn(t, tasks') > CopiesIn(t, tasks)}

AudioEntries == {k \in 1 .. Len(resp.streams) : IsAudio(resp.streams[k])}

\* C28: the stream URL taken from a provider response is the url of an
\* audio-capable entry whose bitrate, 0 when it declares none, is the highest
\* among the audio-capable entries.
C28_HighestBitrateWins ==
    resp.url # None =>
        \E k \in AudioEntries :
            /\ resp.streams[k].url = resp.url
            /\ \A j \in AudioEntries :
                   Bitrate(resp.streams[j]) <= Bitrate(resp.streams[k])

\* Several audio-capable entries with different bitrates, the highest not the
\* first one, and its url is the one taken.
C28_Witness ==
    /\ Cardinality(AudioEntries) >= 2
    /\ \E k \in AudioEntries :
           /\ resp.url = k /\ k > 1
           /\ \A j \in AudioEntries \ {k} :
                  Bitrate(resp.streams[j]) < Bitrate(resp.streams[k])

\* C29: the volume stays within [0, 1]; a /volume with a level outside
\* 0..100 leaves it as it was, and the buttons stop at 1.0 and at 0.0.
C29_VolumeInRange ==
    [][/\ 0 <= volume'.v /\ volume'.v <= FullVolume
       /\ volume'.op = "rejected" => volume'.v = volume.v
       /\ (volume'.op = "up" /\ volume.v + VolumeStep >= FullVolume)
             => volume'.v = FullVolume
       /\ (volume'.op = "down" /\ volume.v - VolumeStep <= 0) => volume'.v = 0
    ]_vars

\* The up button was pressed at a volume above 0.9 and left it at 1.0.
C29_Witness ==
    volume.op = "up" /\ volume.v = FullVolume

\* C30: whenever the transport is playing, what it plays is the stream that
\* was resolved for the current song.  (A source carries the id of the song
\* it was made for.)
C30_TransportPlaysCurrent ==
    is_playing(St) => (current # None /\ player[2] = current)

\* C31: a play_next() that was suspended in from_url when stop ran, and that
\* resumes directly after it, starts nothing on the voice client and leaves
\* nothing current.
C31_StoppedAdvanceStartsNothing ==
    [][(hist.op = "stop_pending" /\ play_next_resolve_done)
        => (player' = NoUrl /\ current' = None)]_vars

\* C32: with both loop flags off, a play_next() that finds no voice client
\* leaves the song at the head of the queue in the queue.
C32_NoVoiceKeepsSong ==
    [][(/\ play_next_start
        /\ ~loop /\ ~loop_queue
        /\ queue # << >> /\ ~connected)
        => \E i \in 1 .. Len(queue') : queue'[i] = Head(queue)]_vars

\* C33: while the cursor exists, the track a refill appends when its lookup
\* returns is the one at the cursor's index at that moment, whether the refill is the one play_next()
\* waits for or a background one; the index then moving by one, every entry
\* is appended at most once, in cursor order, and none is passed over.
C33_RefillAppendsEntryAtIndex ==
    [][\A t \in TasksOf("load_next", "search") \cup TasksOf("play_next", "refill") :
           (/\ pending_playlist.active
            /\ \/ /\ t.kind = "load_next"
                  /\ Step(refill_found(Without(t), t, TRUE))
               \/ /\ t.kind = "play_next"
                  /\ Step(play_next_rest(refill_found(Without(t), t, TRUE), MaxDepth)))
           => /\ refill_case(pending_playlist) = "search"
              /\ t.url[2] = EntryAt(pending_playlist)]_vars

\* C34: every call of load_next_from_playlist that does not find the cursor
\* exhausted moves the index by exactly one, also when the entry raises.
C34_EveryRefillAdvances ==
    [][(load_next_counted /\ expansion'.last # "exhausted")
        => expansion'.cursor.current_index = expansion.cursor.current_index + 1]_vars

\* C35: repeat-song and repeat-queue are never both on.
C35_LoopFlagsExclusive == ~(loop /\ loop_queue)

\* Repeat-queue is on after a skip that was issued with repeat-song on and the
\* play_next() it started.
C35_Witness == hist.op = "skip_advance" /\ loop_queue /\ ~loop

\* C36: a file that a cleanup deletes is neither the one a live handle plays
\* from nor the one the from_url run of that cleanup has just downloaded.
C36_CleanupSparesLiveFiles ==
    [][\A r \in Runs :
           (disk.runs[r].pc = "remove" /\ disk'.runs[r] # disk.runs[r])
           => \A v \in OnDisk(disk.files) \ OnDisk(disk'.files) :
                  v \notin disk.handles /\ v # disk.runs[r].own]_vars

\* C37: a skip issued while there is no voice client or the voice client is
\* not playing (silent or paused) leaves the queue, the current song, both
\* loop flags and the prefetch cache as they are.
C37_SkipWhileSilentChangesNothing ==
    [][((skip \/ skip_rejected) /\ ~(connected /\ is_playing(St)))
        => UNCHANGED <<queue, current, loop, loop_queue, preloaded_sources>>]_vars

\* A skip was rejected while the song was paused, with repeat-song on, a song
\* queued and its handle in the cache.
C37_Witness ==
    /\ hist.op = "skip_rejected"
    /\ is_paused(St) /\ current # None
    /\ loop /\ queue # << >> /\ preloaded_sources # {}

\* C38: /remove leaves the current song and both loop flags as they are; with
\* a position below 1 or above the queue length it leaves the queue as it is,
\* and with a position in the queue the queue afterwards is the queue before
\* without the song at that position, counted from 1, the others in their
\* order.
C38_RemoveByPosition ==
    [][\A position \in 0 .. MaxSongs + 1 :
           MusicCog_remove(position)
           => /\ current' = current /\ loop' = loop /\ loop_queue' = loop_queue
              /\ IF position < 1 \/ position > Len(queue)
                 THEN queue' = queue
                 ELSE /\ Len(queue') = Len(queue) - 1
                      /\ \A i \in 1 .. Len(queue') :
                             queue'[i] = IF i < position THEN queue[i]
                                         ELSE queue[i + 1]]_vars

\* The second of three songs was removed while it was queued behind the
\* playing first one, and a later /remove was rejected.
C38_Witness ==
    /\ hist.op = "remove_rejected"
    /\ created = 3 /\ current = 1 /\ queue = <<3>>

\* How often song x is queued in q.
Count(q, x) == Cardinality({i \in 1 .. Len(q) : q[i] = x})

\* C39: /shuffle leaves the current song and both loop flags as they are and
\* every song queued as often as before; with fewer than two songs queued it
\* leaves the queue and the prefetch cache as they are.
C39_ShufflePermutes ==
    [][(shuffle \/ shuffle_rejected)
        => /\ current' = current /\ loop' = loop /\ loop_queue' = loop_queue
           /\ Len(queue') = Len(queue)
           /\ \A x \in SongIds : Count(queue', x) = Count(queue, x)
           /\ Len(queue) < 2
                  => queue' = queue /\ preloaded_sources' = preloaded_sources]_vars

\* The two songs queued behind the playing first one have changed places.
C39_Witness ==
    /\ created = 3 /\ current = 1 /\ queue = <<3, 2>>
    /\ \E t \in TasksOf("preload", "start") : TRUE

\* A handler of guild g runs.
GuildStep(g) ==
    \/ guild_play(g)
    \/ guild_after_playing(g)
    \/ guild_play_next_start(g)
    \/ guild_load_next(g)
    \/ guild_preload(g)
    \/ guild_skip(g)
    \/ guild_stop(g)
    \/ guild_shuffle(g)
    \/ guild_remove(g)
    \/ guild_clear(g)
    \/ guild_loop(g)
    \/ guild_volume(g)

\* C40: a handler that runs in one guild leaves that guild with a player,
\* the one it had if it had one, which no other guild has; and it leaves
\* every other guild with the player object it had and that object with the
\* fields it had (queue, current song, loop flags, volume, cursor, prefetch
\* cache).
C40_GuildsAreSeparate ==
    [][\A g \in Guilds :
           GuildStep(g)
           => /\ cog'.players[g] # 0
              /\ cog.players[g] # 0 => cog'.players[g] = cog.players[g]
              /\ \A h \in Guilds \ {g} :
                     /\ cog'.players[h] = cog.players[h]
                     /\ cog'.players[h] # cog'.players[g]
                     /\ cog.players[h] # 0
                            => cog'.heap[cog.players[h]] = cog.heap[cog.players[h]]]_vars

\* Two guilds have a player each, one playing with a song queued and its
\* handle cached, the other with a loop mode and a volume of its own.
C40_Witness ==
    \E g, h \in Guilds :
        /\ cog.players[g] # 0 /\ cog.players[h] # 0 /\ g # h
        /\ cog.heap[cog.players[g]].current # None
        /\ cog.heap[cog.players[g]].preloaded_sources # {}
        /\ cog.heap[cog.players[h]].loop_queue
        /\ cog.heap[cog.players[h]].volume # DefaultVolume
        /\ cog.heap[cog.players[h]].current # None

====
